---- MODULE Spec2Model ----
(***************************************************************************)
(* Model of the ad-vista-pro dashboard core:                               *)
(*   - MockDataService (src/src/services/mockData.ts): the live feed       *)
(*     singleton with its interval timer and subscriber list;              *)
(*   - DataTable (src/src/components/dashboard/DataTable.tsx): the query   *)
(*     state of the table and the filter -> sort -> paginate pipeline;     *)
(*   - Index page + FilterPanel (src/unnamed/part_001, FilterPanel.tsx):   *)
(*     the advanced filter criteria and handleFiltersChange.               *)
(* Each subsystem has its own specification (FeedSpec, TableSpec,          *)
(* DashSpec); the variables of the other subsystems stay at their initial  *)
(* values.                                                                 *)
(***************************************************************************)
EXTENDS Integers, Sequences, FiniteSets, TLC

VARIABLES
    \* ---- MockDataService ----
    updateCallbacks,  \* private updateCallbacks: Array<() => void>
    intervalId,       \* private intervalId: Timeout | null
    liveTimers,       \* interval timers live in the runtime (setInterval/clearInterval)
    nextTimerId,      \* next fresh timer id the runtime hands out
    handles,          \* cleanup closures returned by onUpdate so far
    nextReg,          \* number of the next onUpdate call (history)
    called,           \* history: registrations whose cleanup closure was invoked,
                      \* kept only in the behaviours that record it
    tickActive,       \* the interval callback is executing (forEach in progress)
    tickIdx,          \* forEach: index k of the next element to visit (0-based)
    tickLen,          \* forEach: array length captured when the loop began
    tickTimer,        \* the timer whose firing began the latest tick
    tickStart,        \* history: subscriber list when the latest tick began
    invoked,          \* history: registrations invoked in the latest tick, in order
    tickRemoved,      \* history: callbacks removed by a cleanup during the latest tick
    threw,            \* history: the latest tick was aborted by a throwing callback
    ticks,            \* history: number of ticks begun
    resumed,          \* history: the latest tick came from the timer of a tick that threw
    staleTick,        \* history: some tick was begun by a timer other than intervalId
    idleCall,         \* history: some callback was invoked while intervalId was null
    lastOp,           \* history: the latest start/stop operation
    \* ---- DataTable ----
    data,             \* prop data: CampaignData[]
    pageSize,         \* prop pageSize (itemsPerPage)
    search,           \* useState('')
    statusFilter,     \* useState('all')
    sortKey,          \* useState<SortKey>('budget')
    sortDirection,    \* useState<SortDirection>('desc'); "none" is null
    currentPage,      \* useState(1)
    passed,           \* history: the collection as the parent built it
    csvCall,          \* history: the exportToCSV call of the latest event, if any
    \* ---- Index page and FilterPanel ----
    isLoading,            \* useState(true)
    campaignData,         \* useState<CampaignData[]>([])
    filteredCampaignData, \* useState<CampaignData[]>([]), the table's data prop
    filters,              \* FilterPanel: useState<FilterState>
    activeFilters,        \* FilterPanel: useState<string[]>([])
    isRealTimeActive,     \* useState(false)
    metrics,              \* useState({}): number of the refresh that generated them
    charts,               \* line, bar and pie chart data: number of the refresh
    lastUpdated,          \* useState(new Date()): number of the refresh
    snapshot,             \* history: number of the refresh that generated campaignData
    refreshes,            \* history: refreshes (runs of the generators) so far
    toast,                \* title of the latest notification shown
    effectCleanup,        \* cleanup closure of the real-time effect: the handle it holds
    \* ---- exports ----
    pdfPc,                \* exportToPDF: position of the call in progress
    canvas,               \* exportToPDF: the canvas html2canvas resolved with
    heightLeft,           \* exportToPDF: heightLeft, in units of 1 / canvas.width mm
    position,             \* exportToPDF: position, in the same units
    pdfPages,             \* exportToPDF: pages of the jsPDF document
    exportOutcome,        \* history: the export of the latest event and how it ended
    unhandledError        \* history: an error left an event handler uncaught

feedVars == <<updateCallbacks, intervalId, liveTimers, nextTimerId, handles, nextReg, called,
              tickActive, tickIdx, tickLen, tickTimer, tickStart, invoked,
              tickRemoved, threw, ticks, resumed, staleTick, idleCall, lastOp>>

tableVars == <<data, pageSize, search, statusFilter, sortKey, sortDirection, currentPage,
               passed, csvCall>>

dashVars == <<isLoading, campaignData, filteredCampaignData, filters, activeFilters>>

pageVars == <<isRealTimeActive, metrics, charts, lastUpdated, snapshot, refreshes,
              toast, effectCleanup>>

exportVars == <<pdfPc, canvas, heightLeft, position, pdfPages, exportOutcome,
                unhandledError>>

vars == <<feedVars, tableVars, dashVars, pageVars, exportVars>>

(***************************************************************************)
(* Bounds.                                                                 *)
(***************************************************************************)
MaxRegs == 2      \* onUpdate calls in one behaviour
MaxTimers == 2    \* setInterval calls in one behaviour
MaxTicks == 2     \* ticks in one behaviour
MaxPageSize == 2  \* largest pageSize prop tried besides the default
GenLength == 2    \* records in one generated collection (the generator makes 50)

\* The callback functions a client may pass to onUpdate.
Callbacks == {"A", "B"}

(***************************************************************************)
(* Strings are sequences of characters, so that toLowerCase, includes and  *)
(* localeCompare are computed and not assumed.                             *)
(***************************************************************************)
UpperChars == <<"A", "B", "C", "D", "E", "F", "G", "H", "I", "J", "K", "L", "M", "N", "O", "P", "Q", "R", "S", "T", "U", "V", "W", "X", "Y", "Z">>
LowerChars == <<"a", "b", "c", "d", "e", "f", "g", "h", "i", "j", "k", "l", "m", "n", "o", "p", "q", "r", "s", "t", "u", "v", "w", "x", "y", "z">>
DigitChars == <<"0", "1", "2", "3", "4", "5", "6", "7", "8", "9">>

Chars == {UpperChars[i] : i \in 1..Len(UpperChars)}
           \cup {LowerChars[i] : i \in 1..Len(LowerChars)}
           \cup {DigitChars[i] : i \in 1..Len(DigitChars)}
           \cup {" ", "-"}

\* String.prototype.toLowerCase, one character (tabulated)
LowerTable ==
    [c \in Chars |->
        IF \E i \in 1..Len(UpperChars) : UpperChars[i] = c
        THEN LowerChars[CHOOSE i \in 1..Len(UpperChars) : UpperChars[i] = c]
        ELSE c]
LowerChar(c) == LowerTable[c]

\* String.prototype.toLowerCase
ToLowerCase(str) == [i \in 1..Len(str) |-> LowerChar(str[i])]

\* String.prototype.includes
Includes(str, sub) ==
    \E k \in 0..(Len(str) - Len(sub)) : SubSeq(str, k + 1, k + Len(sub)) = sub

\* Template literal ${n} for a non-negative integer: its decimal digits.
RECURSIVE NumberToString(_)
NumberToString(n) ==
    IF n < 10 THEN <<DigitChars[n + 1]>>
    ELSE NumberToString(n \div 10) \o <<DigitChars[(n % 10) + 1]>>

\* Primary collation weight of a character under localeCompare: white space
\* and punctuation before digits before letters, letters without regard to case.
WeightTable ==
    [c \in Chars |->
        IF c = " " THEN 1
        ELSE IF c = "-" THEN 2
        ELSE IF \E i \in 1..10 : DigitChars[i] = c
             THEN 10 + (CHOOSE i \in 1..10 : DigitChars[i] = c)
        ELSE 100 + (CHOOSE i \in 1..Len(LowerChars) : LowerChars[i] = LowerChar(c))]
CollationWeight(c) == WeightTable[c]

\* Lexicographic comparison of two integer sequences: -1, 0 or 1.
RECURSIVE LexCompare(_, _)
LexCompare(x, y) ==
    IF Len(x) = 0 /\ Len(y) = 0 THEN 0
    ELSE IF Len(x) = 0 THEN -1
    ELSE IF Len(y) = 0 THEN 1
    ELSE IF Head(x) < Head(y) THEN -1
    ELSE IF Head(x) > Head(y) THEN 1
    ELSE LexCompare(Tail(x), Tail(y))

\* String.prototype.localeCompare: primary weights first; strings equal on
\* those are told apart by case, lower case first.
LocaleCompare(x, y) ==
    LET px == [i \in 1..Len(x) |-> CollationWeight(x[i])]
        py == [i \in 1..Len(y) |-> CollationWeight(y[i])]
        cx == [i \in 1..Len(x) |-> IF LowerChar(x[i]) = x[i] THEN 0 ELSE 1]
        cy == [i \in 1..Len(y) |-> IF LowerChar(y[i]) = y[i] THEN 0 ELSE 1]
    IN  IF LexCompare(px, py) # 0 THEN LexCompare(px, py) ELSE LexCompare(cx, cy)

(***************************************************************************)
(* Campaign records (CampaignData) as generateCampaignData builds them.    *)
(* Dates are day numbers: the ISO date string of a day and the day number  *)
(* determine each other. Money is in dollars; ctr is in hundredths of a    *)
(* percent and cpc in cents.                                               *)
(***************************************************************************)
\* new Date(): the day the dashboard runs.
Today == 20000

CampaignTypes == <<<<"H", "o", "l", "i", "d", "a", "y", " ", "S", "a", "l", "e">>,
                   <<"B", "r", "a", "n", "d", " ", "A", "w", "a", "r", "e", "n", "e", "s", "s">>>>
Clients == <<<<"T", "e", "c", "h", "C", "o", "r", "p">>, <<"F", "a", "s", "h", "i", "o", "n", " ", "P", "l", "u", "s">>>>
Statuses == <<"active", "paused", "completed">>

\* `Campaign ${i + 1} - ${type}`
CampaignName(n, type) == <<"C", "a", "m", "p", "a", "i", "g", "n", " ">> \o NumberToString(n) \o <<" ", "-", " ">> \o type

\* One element of generateCampaignData: n is i + 1; p holds the random draws.
MkCampaign(n, p) ==
    [id          |-> n,
     name        |-> CampaignName(n, CampaignTypes[p.type]),
     client      |-> Clients[p.client],
     budget      |-> p.budget,
     spent       |-> (p.budget * p.spentPct) \div 100,
     impressions |-> p.impressions,
     clicks      |-> p.clicks,
     conversions |-> p.conversions,
     ctr         |-> (p.clicks * 10000) \div p.impressions,
     cpc         |-> (((p.budget * p.spentPct) \div 100) * 100) \div p.clicks,
     status      |-> Statuses[p.status],
     startDate   |-> Today - p.startAgo,
     endDate     |-> (Today - p.startAgo) + p.duration]

Draw(type, client, budget, spentPct, impressions, clicks, conversions, status, startAgo, duration) ==
    [type |-> type, client |-> client, budget |-> budget, spentPct |-> spentPct,
     impressions |-> impressions, clicks |-> clicks, conversions |-> conversions,
     status |-> status, startAgo |-> startAgo, duration |-> duration]

(***************************************************************************)
(* DataTable                                                               *)
(***************************************************************************)
\* pageSize = 10 (default prop)
DefaultPageSize == 10
PageSizes == (1..MaxPageSize) \cup {DefaultPageSize}

\* The columns whose header calls handleSort.
SortKeys == {"name", "client", "budget", "spent", "conversions", "ctr"}
StringKeys == {"name", "client"}
StatusOptions == {"all", "active", "paused", "completed"}

\* Record collections passed as the data prop.
SixCampaigns ==
    <<MkCampaign(1, Draw(1, 1, 50000, 50, 200000, 4000, 100, 1, 3, 14)),
      MkCampaign(2, Draw(2, 2, 10000, 20, 100000, 1000, 20, 2, 10, 20)),
      MkCampaign(3, Draw(1, 2, 50000, 80, 300000, 9000, 300, 3, 40, 30)),
      MkCampaign(4, Draw(2, 1, 109999, 40, 500000, 5000, 100, 1, 59, 43)),
      MkCampaign(5, Draw(1, 1, 100000, 30, 100000, 6000, 480, 2, 30, 14)),
      MkCampaign(6, Draw(2, 2, 20000, 60, 400000, 4000, 80, 1, 0, 25))>>
TableInputs ==
    {<<>>, SixCampaigns, SubSeq(SixCampaigns, 1, 3),
     <<MkCampaign(1, Draw(1, 1, 50000, 50, 200000, 4000, 100, 1, 3, 14)),
       MkCampaign(12, Draw(2, 2, 10000, 20, 100000, 1000, 20, 2, 10, 20))>>}

\* Texts typed into the search box.
Searches == {<<>>, <<"C", "a", "m", "p", "a", "i", "g", "n", " ", "1">>, <<"T", "E", "C", "H">>, <<"z", "z">>}

\* A match that compares the characters as typed.
MatchesSearchAsTyped(item, text) ==
    Includes(item.name, text) \/ Includes(item.client, text)
\* filteredAndSortedData, the filter predicate
MatchesSearch(item, text) ==
    \/ Includes(ToLowerCase(item.name), ToLowerCase(text))
    \/ Includes(ToLowerCase(item.client), ToLowerCase(text))
MatchesStatus(item, filter) == filter = "all" \/ item.status = filter
FilterData(records, text, filter) ==
    SelectSeq(records, LAMBDA item : MatchesSearch(item, text) /\ MatchesStatus(item, filter))

\* The comparator passed to Array.prototype.sort.
Comparator(a, b, key, direction) ==
    LET comparison == IF key \in StringKeys
                      THEN LocaleCompare(a[key], b[key])
                      ELSE a[key] - b[key]
    IN  IF direction = "asc" THEN comparison ELSE 0 - comparison

\* Array.prototype.sort is stable: an element goes before the first one that
\* the comparator puts after it.
InsertSorted(sorted, x, key, direction) ==
    LET later == {i \in 1..Len(sorted) : Comparator(sorted[i], x, key, direction) > 0}
        at == IF later = {} THEN Len(sorted) + 1
              ELSE CHOOSE i \in later : \A j \in later : i <= j
    IN  SubSeq(sorted, 1, at - 1) \o <<x>> \o SubSeq(sorted, at, Len(sorted))
RECURSIVE SortBy(_, _, _)
SortBy(records, key, direction) ==
    IF Len(records) = 0 THEN <<>>
    ELSE InsertSorted(SortBy(SubSeq(records, 1, Len(records) - 1), key, direction),
                      records[Len(records)], key, direction)

\* A result that stays sorted (ascending) when the direction is unset.
FilteredAndSortedAlways(records, text, filter, key, direction) ==
    SortBy(FilterData(records, text, filter), key,
           IF direction = "none" THEN "asc" ELSE direction)
\* filteredAndSortedData
FilteredAndSorted(records, text, filter, key, direction) ==
    IF direction # "none"
    THEN SortBy(FilterData(records, text, filter), key, direction)
    ELSE FilterData(records, text, filter)
filteredAndSortedData ==
    FilteredAndSorted(data, search, statusFilter, sortKey, sortDirection)

\* Math.ceil(length / itemsPerPage)
Ceil(n, d) == (n + d - 1) \div d
totalPages == Ceil(Len(filteredAndSortedData), pageSize)

\* Array.prototype.slice(start, end) with 0-based bounds; start may be negative.
Slice(list, start, end) ==
    LET from == IF start < 0 THEN (IF Len(list) + start < 0 THEN 0 ELSE Len(list) + start)
                ELSE (IF start > Len(list) THEN Len(list) ELSE start)
        to == IF end < 0 THEN (IF Len(list) + end < 0 THEN 0 ELSE Len(list) + end)
              ELSE (IF end > Len(list) THEN Len(list) ELSE end)
    IN  SubSeq(list, from + 1, to)
\* A window that starts one page too late.
PageOfNextWindow(list, page, size) ==
    Slice(list, page * size, page * size + size)
\* slice(startIndex, startIndex + itemsPerPage), startIndex = (page - 1) * size
PageOf(list, page, size) ==
    Slice(list, (page - 1) * size, (page - 1) * size + size)
paginatedData == PageOf(filteredAndSortedData, currentPage, pageSize)

\* The data prop's array after a sort done on that array itself.
DataAfterMemoSortedInPlace(records, text, filter, key, direction) ==
    IF direction # "none" THEN SortBy(records, key, direction) ELSE records
\* The data prop's array after the memo callback ran: data.filter() builds a
\* new array and sort() reorders that one.
DataAfterMemo(records, text, filter, key, direction) == records

\* Papa.unparse(data, { header: true, columns }): the header line and one
\* line per record, each line the cells in column order.
CsvColumns ==
    <<"id", "name", "client", "budget", "spent", "impressions", "clicks",
      "conversions", "ctr", "cpc", "status", "startDate", "endDate">>
Unparse(rows) ==
    <<CsvColumns>> \o [i \in 1..Len(rows) |->
                         [c \in 1..Len(CsvColumns) |-> rows[i][CsvColumns[c]]]]
\* No exportToCSV call.
NoCsvCall == [made |-> FALSE, rows |-> <<>>, file |-> <<>>, threw |-> FALSE]
\* ExportService.exportToCSV(rows, 'campaign-data.csv')
ExportToCSV(rows) == [made |-> TRUE, rows |-> rows, file |-> Unparse(rows), threw |-> FALSE]
\* The same call when Papa.unparse or the download throws: no file.
ExportToCSVThrows(rows) == [made |-> TRUE, rows |-> rows, file |-> <<>>, threw |-> TRUE]
\* The rows of the page on screen.
ExportArgumentVisible(result, visible) == visible
\* The argument handleExportCSV passes to the exporter.
ExportArgument(result, visible) == result

Max(a, b) == IF a > b THEN a ELSE b
Min(a, b) == IF a < b THEN a ELSE b

\* The table with no input yet: the state it has in the other specifications.
TableIdle ==
    /\ data = <<>>
    /\ passed = <<>>
    /\ csvCall = NoCsvCall
    /\ pageSize = DefaultPageSize
    /\ search = <<>>
    /\ statusFilter = "all"
    /\ sortKey = "budget"
    /\ sortDirection = "desc"
    /\ currentPage = 1

\* The table as mounted with some data and page size.
TableInit ==
    /\ data \in TableInputs
    /\ passed = data
    /\ csvCall = NoCsvCall
    /\ pageSize \in PageSizes
    /\ search = <<>>
    /\ statusFilter = "all"
    /\ sortKey = "budget"
    /\ sortDirection = "desc"
    /\ currentPage = 1

(***************************************************************************)
(* Index page and FilterPanel: criteria and handleFiltersChange            *)
(***************************************************************************)
\* 24 * 60 * 60
SecondsPerDay == 86400
\* new Date(isoDate).getTime(): midnight UTC of the day. The time stamp is
\* kept in seconds, not milliseconds, to stay within TLC's 32-bit integers.
\* EmptyDate is the value '' of a cleared date input; new Date('') is an
\* Invalid Date, whose time stamp is NaN.
EmptyDate == -1
NaN == -1
ParseDate(day) == IF day = EmptyDate THEN NaN ELSE day * SecondsPerDay
\* a >= b and a <= b on time stamps: false when either side is NaN
DateGe(a, b) == a # NaN /\ b # NaN /\ a >= b
DateLe(a, b) == a # NaN /\ b # NaN /\ a <= b

\* FilterPanel's initial criteria
DefaultRangeDays == 30
DefaultBudgetMin == 0
DefaultBudgetMax == 100000
defaultDateRange == [from |-> Today - DefaultRangeDays, to |-> Today]
DefaultFilters ==
    [dateRange   |-> defaultDateRange,
     clients     |-> <<>>,
     status      |-> <<>>,
     budgetRange |-> [min |-> DefaultBudgetMin, max |-> DefaultBudgetMax]]

\* availableClients / availableStatuses offered by the panel
AvailableClients == {Clients[i] : i \in 1..Len(Clients)}
AvailableStatuses == {Statuses[i] : i \in 1..Len(Statuses)}
\* Values typed into the budget and date inputs.
BudgetMinInputs == {DefaultBudgetMin, 50000}
BudgetMaxInputs == {20000, DefaultBudgetMax, 120000}
DateFromInputs == {Today - 60, Today - DefaultRangeDays, EmptyDate}
DateToInputs == {Today - 10, Today}

\* Random draws of generateCampaignData: budget in 10000..109999, start date
\* 0..59 days ago, duration 14..43 days.
Draws ==
    {Draw(1, 1, 50000, 50, 200000, 4000, 100, 1, 3, 14),
     Draw(2, 2, 109999, 20, 100000, 1000, 20, 2, 10, 20),
     Draw(1, 2, 10000, 80, 300000, 9000, 300, 3, 59, 43),
     Draw(2, 1, 100000, 40, 500000, 5000, 100, 1, 30, 14)}
\* generateCampaignData(): the collections it can return
GenerateCampaignData ==
    {[i \in 1..GenLength |-> MkCampaign(i, d[i])] : d \in [1..GenLength -> Draws]}

\* Array.prototype.includes
Contains(list, x) == \E i \in 1..Len(list) : list[i] = x

\* handleFiltersChange: the collection it hands to setFilteredCampaignData
ByClients(records, f) ==
    IF Len(f.clients) > 0
    THEN SelectSeq(records, LAMBDA c : Contains(f.clients, c.client))
    ELSE records
ByStatus(records, f) ==
    IF Len(f.status) > 0
    THEN SelectSeq(records, LAMBDA c : Contains(f.status, c.status))
    ELSE records
ByBudget(records, f) ==
    SelectSeq(records, LAMBDA c : c.budget >= f.budgetRange.min /\ c.budget <= f.budgetRange.max)
\* A date filter that keeps the campaigns running within the range.
ByDateUntilEnd(records, f) ==
    SelectSeq(records, LAMBDA c :
        /\ DateGe(ParseDate(c.startDate), ParseDate(f.dateRange.from))
        /\ DateLe(ParseDate(c.endDate), ParseDate(f.dateRange.to)))
ByDate(records, f) ==
    SelectSeq(records, LAMBDA c :
        /\ DateGe(ParseDate(c.startDate), ParseDate(f.dateRange.from))
        /\ DateLe(ParseDate(c.startDate), ParseDate(f.dateRange.to)))
HandleFiltersChange(records, f) == ByDate(ByBudget(ByStatus(ByClients(records, f), f), f), f)

\* updateActiveFilters: one descriptor per criterion it reports
ActiveFiltersOf(f) ==
    (IF Len(f.clients) > 0 THEN <<[kind |-> "Clients", value |-> f.clients]>> ELSE <<>>)
    \o (IF Len(f.status) > 0 THEN <<[kind |-> "Status", value |-> f.status]>> ELSE <<>>)
    \o (IF f.budgetRange.min > 0 \/ f.budgetRange.max < 100000
        THEN <<[kind |-> "Budget", value |-> <<f.budgetRange.min, f.budgetRange.max>>]>>
        ELSE <<>>)

\* The page before loadInitialData has finished.
\* No cleanup closure: the effect's latest run returned none.
NoHandle == [cb |-> "none", reg |-> 0]
\* No canvas yet.
NoCanvas == [width |-> 0, height |-> 0]

\* No export in progress and none made.
ExportInit ==
    /\ pdfPc = "idle"
    /\ canvas = NoCanvas
    /\ heightLeft = 0
    /\ position = 0
    /\ pdfPages = 0
    /\ exportOutcome = "none"
    /\ unhandledError = FALSE

DashInit ==
    /\ isLoading = TRUE
    /\ campaignData = <<>>
    /\ filteredCampaignData = <<>>
    /\ filters = DefaultFilters
    /\ activeFilters = <<>>
    /\ isRealTimeActive = FALSE
    /\ metrics = 0
    /\ charts = 0
    /\ lastUpdated = 0
    /\ snapshot = 0
    /\ refreshes = 0
    /\ toast = "none"
    /\ effectCleanup = NoHandle
    /\ ExportInit

(***************************************************************************)
(* MockDataService                                                         *)
(***************************************************************************)
\* intervalId = null
NoTimer == 0

\* Array.prototype.indexOf on the subscriber list: the 0-based index of the
\* first element that is the function cb, or -1. Only the function is
\* visible to the code; the reg field is history.
IndexOf(list, cb) ==
    IF \E i \in 1..Len(list) : list[i].cb = cb
    THEN (CHOOSE i \in 1..Len(list) :
             /\ list[i].cb = cb
             /\ \A j \in 1..(i - 1) : list[j].cb # cb) - 1
    ELSE -1

\* Array.prototype.splice(index, 1) for 0 <= index < length.
Splice1(list, index) ==
    [i \in 1..(Len(list) - 1) |-> IF i <= index THEN list[i] ELSE list[i + 1]]

\* The cleanup closure returned by onUpdate(callback).
Cleanup(list, cb) ==
    IF IndexOf(list, cb) > -1 THEN Splice1(list, IndexOf(list, cb)) ELSE list

\* clearInterval(id)
ClearInterval(timers, id) == timers \ {id}

\* startRealTimeUpdates, first statement: if (this.intervalId) clearInterval(...)
CancelPriorKeep(timers, id) == timers
CancelPrior(timers, id) == IF id # NoTimer THEN ClearInterval(timers, id) ELSE timers

\* stopRealTimeUpdates: the timers and the intervalId it leaves.
StopTimersKeep(timers, id) == timers
StopTimers(timers, id) == IF id # NoTimer THEN ClearInterval(timers, id) ELSE timers
StopId(id) == IF id # NoTimer THEN NoTimer ELSE id

\* What the runtime does to the interval timers when the interval callback
\* throws: the error is reported and the interval keeps firing.
TimersAfterThrowCancel(timers, id) == timers \ {id}
TimersAfterThrow(timers, id) == timers

\* The history of cleanup calls: not kept, or kept and empty.
NoRecord == [on |-> FALSE, regs |-> {}]
Recording == [on |-> TRUE, regs |-> {}]
RecordCall(c, reg) == IF c.on THEN [c EXCEPT !.regs = @ \cup {reg}] ELSE c

FeedInitWith(record) ==
    /\ called = record
    /\ updateCallbacks = <<>>
    /\ intervalId = NoTimer
    /\ liveTimers = {}
    /\ nextTimerId = 1
    /\ handles = {}
    /\ nextReg = 1
    /\ tickActive = FALSE
    /\ tickIdx = 0
    /\ tickLen = 0
    /\ tickTimer = NoTimer
    /\ tickStart = <<>>
    /\ invoked = <<>>
    /\ tickRemoved = {}
    /\ threw = FALSE
    /\ ticks = 0
    /\ resumed = FALSE
    /\ staleTick = FALSE
    /\ idleCall = FALSE
    /\ lastOp = "none"
FeedInit == FeedInitWith(NoRecord)

\* The state of the other subsystems, which the service never touches.
otherThanFeed == <<tableVars, dashVars, pageVars, exportVars>>

tickHist == <<tickActive, tickIdx, tickLen, tickTimer, tickStart, invoked,
              tickRemoved, threw, ticks, resumed, staleTick, idleCall>>

\* The state change of startRealTimeUpdates(intervalMs).
DoStart ==
    /\ nextTimerId <= MaxTimers
    /\ liveTimers' = CancelPrior(liveTimers, intervalId) \cup {nextTimerId}
    /\ intervalId' = nextTimerId
    /\ nextTimerId' = nextTimerId + 1
    /\ lastOp' = IF intervalId # NoTimer THEN "restart" ELSE "start"

\* The state change of stopRealTimeUpdates().
DoStop ==
    /\ liveTimers' = StopTimers(liveTimers, intervalId)
    /\ intervalId' = StopId(intervalId)
    /\ lastOp' = IF intervalId = NoTimer THEN "stopIdle" ELSE "stop"
    /\ UNCHANGED nextTimerId

\* The state change of invoking the cleanup closure h.
DoCleanup(h) ==
    /\ updateCallbacks' = Cleanup(updateCallbacks, h.cb)
    /\ UNCHANGED lastOp

\* ---- operations called from the event loop (no tick in progress) ----
StartRealTimeUpdates ==
    /\ UNCHANGED otherThanFeed
    /\ ~tickActive
    /\ DoStart
    /\ UNCHANGED <<updateCallbacks, handles, nextReg, called, tickHist>>

StopRealTimeUpdates ==
    /\ UNCHANGED otherThanFeed
    /\ ~tickActive
    /\ DoStop
    /\ UNCHANGED <<updateCallbacks, handles, nextReg, called, tickHist>>

OnUpdate(cb) ==
    /\ UNCHANGED otherThanFeed
    /\ ~tickActive
    /\ nextReg <= MaxRegs
    /\ updateCallbacks' = Append(updateCallbacks, [cb |-> cb, reg |-> nextReg])
    /\ handles' = handles \cup {[cb |-> cb, reg |-> nextReg]}
    /\ nextReg' = nextReg + 1
    /\ UNCHANGED <<called, lastOp>>
    /\ UNCHANGED <<intervalId, liveTimers, nextTimerId, tickHist>>

Unsubscribe(h) ==
    /\ UNCHANGED otherThanFeed
    /\ ~tickActive
    /\ DoCleanup(h)
    /\ called' = RecordCall(called, h.reg)
    /\ UNCHANGED <<intervalId, liveTimers, nextTimerId, handles, nextReg, tickHist>>

\* ---- the interval callback: this.updateCallbacks.forEach(cb => cb()) ----
TickBegin ==
    /\ UNCHANGED otherThanFeed
    /\ ~tickActive
    /\ ticks < MaxTicks
    /\ \E t \in liveTimers :
          /\ tickTimer' = t
          /\ staleTick' = (staleTick \/ t # intervalId)
          /\ resumed' = (threw /\ t = tickTimer)
    /\ tickActive' = TRUE
    /\ tickIdx' = 0
    /\ tickLen' = Len(updateCallbacks)
    /\ tickStart' = updateCallbacks
    /\ invoked' = <<>>
    /\ tickRemoved' = {}
    /\ threw' = FALSE
    /\ ticks' = ticks + 1
    /\ UNCHANGED <<updateCallbacks, intervalId, liveTimers, nextTimerId, handles,
                   nextReg, called, idleCall, lastOp>>

\* forEach visits index k only if it is still present in the array.
Visiting == tickActive /\ tickIdx < tickLen /\ tickIdx < Len(updateCallbacks)
Current == updateCallbacks[tickIdx + 1]

\* Bookkeeping common to every invocation of the callback at index k.
Invoke ==
    /\ Visiting
    /\ invoked' = Append(invoked, Current.reg)
    /\ idleCall' = (idleCall \/ intervalId = NoTimer)
    /\ UNCHANGED <<tickTimer, tickStart, ticks, resumed, staleTick, handles, nextReg>>

\* forEach goes on to the next index.
Advance == tickIdx' = tickIdx + 1 /\ UNCHANGED tickLen
\* forEach is left: its index and length are gone.
LeaveLoop == tickIdx' = 0 /\ tickLen' = 0

\* forEach skips an index that a splice has removed from the array.
TickSkipAbsent ==
    /\ UNCHANGED otherThanFeed
    /\ tickActive /\ tickIdx < tickLen /\ tickIdx >= Len(updateCallbacks)
    /\ tickIdx' = tickIdx + 1
    /\ UNCHANGED <<updateCallbacks, intervalId, liveTimers, nextTimerId, handles,
                   nextReg, called, tickActive, tickLen, tickTimer, tickStart, invoked,
                   tickRemoved, threw, ticks, resumed, staleTick, idleCall, lastOp>>

CallbackReturns ==
    /\ UNCHANGED otherThanFeed
    /\ Invoke
    /\ Advance
    /\ UNCHANGED <<updateCallbacks, intervalId, liveTimers, nextTimerId, called,
                   tickActive, tickRemoved, threw, lastOp>>

\* The exception leaves forEach and the interval callback.
CallbackThrows ==
    /\ UNCHANGED otherThanFeed
    /\ Invoke
    /\ LeaveLoop
    /\ tickActive' = FALSE
    /\ threw' = TRUE
    /\ liveTimers' = TimersAfterThrow(liveTimers, tickTimer)
    /\ UNCHANGED <<updateCallbacks, intervalId, nextTimerId, called, tickRemoved, lastOp>>

\* The callback invokes a cleanup closure (its own or another one's).
CallbackUnsubscribes(h) ==
    /\ UNCHANGED otherThanFeed
    /\ Invoke
    /\ Advance
    /\ DoCleanup(h)
    /\ tickRemoved' = IF IndexOf(updateCallbacks, h.cb) > -1
                      THEN tickRemoved \cup {updateCallbacks[IndexOf(updateCallbacks, h.cb) + 1].reg}
                      ELSE tickRemoved
    /\ called' = RecordCall(called, h.reg)
    /\ UNCHANGED <<intervalId, liveTimers, nextTimerId, tickActive, threw>>

CallbackStops ==
    /\ UNCHANGED otherThanFeed
    /\ Invoke
    /\ Advance
    /\ DoStop
    /\ UNCHANGED <<updateCallbacks, called, tickActive, tickRemoved, threw>>

CallbackStarts ==
    /\ UNCHANGED otherThanFeed
    /\ Invoke
    /\ Advance
    /\ DoStart
    /\ UNCHANGED <<updateCallbacks, called, tickActive, tickRemoved, threw>>

TickEnd ==
    /\ UNCHANGED otherThanFeed
    /\ tickActive /\ tickIdx >= tickLen
    /\ tickActive' = FALSE
    /\ LeaveLoop
    /\ UNCHANGED <<updateCallbacks, intervalId, liveTimers, nextTimerId, handles,
                   nextReg, called, tickTimer, tickStart, invoked,
                   tickRemoved, threw, ticks, resumed, staleTick, idleCall, lastOp>>

FeedNext ==
    \/ StartRealTimeUpdates
    \/ StopRealTimeUpdates
    \/ \E cb \in Callbacks : OnUpdate(cb)
    \/ \E h \in handles : Unsubscribe(h)
    \/ TickBegin
    \/ TickSkipAbsent
    \/ CallbackReturns
    \/ CallbackThrows
    \/ \E h \in handles : CallbackUnsubscribes(h)
    \/ CallbackStops
    \/ CallbackStarts
    \/ TickEnd

FeedSpecInit == FeedInit /\ TableIdle /\ DashInit
FeedSpec == FeedSpecInit /\ [][FeedNext]_vars

\* The same service in behaviours that record which cleanup closures were invoked.
FeedRecordingInit == FeedInitWith(Recording) /\ TableIdle /\ DashInit
FeedRecordingSpec == FeedRecordingInit /\ [][FeedNext]_vars

(***************************************************************************)
(* Properties of the MockDataService                                       *)
(***************************************************************************)
\* The registrations (onUpdate call numbers) of a subscriber list, in order.
Regs(list) == [i \in 1..Len(list) |-> list[i].reg]
\* The callback functions of a subscriber list, in order: what the code sees.
Cbs(list) == [i \in 1..Len(list) |-> list[i].cb]
\* A subscriber list without the registration made by onUpdate call number reg.
RemoveReg(list, reg) == SelectSeq(list, LAMBDA e : e.reg # reg)
\* How often registration reg was invoked in the latest tick.
TimesInvoked(reg) == Cardinality({i \in 1..Len(invoked) : invoked[i] = reg})

\* C4: after any sequence of start and stop calls at most one interval timer
\* is live, it is the one intervalId names, and no tick was ever begun by a
\* timer that a later start had superseded.
C4_AtMostOneTimer ==
    /\ Cardinality(liveTimers) <= 1
    /\ liveTimers \subseteq {intervalId}
    /\ NoTimer \notin liveTimers
    /\ ~staleTick

\* A start was issued while a timer was running, and the new timer has
\* delivered a tick.
C4_Witness ==
    /\ lastOp = "restart"
    /\ ticks > 0
    /\ tickTimer = intervalId
    /\ Len(invoked) > 0

C6_RemovesOwnRegistration ==
    [][\A h \in handles :
          Unsubscribe(h) =>
             Cbs(updateCallbacks') = Cbs(RemoveReg(updateCallbacks, h.reg))]_vars

\* C7: when a tick is over, the callbacks invoked in it are exactly those
\* registered when it began, each once, in registration order.
C7_EveryCallbackOnceInOrder ==
    (ticks > 0 /\ ~tickActive) => invoked = Regs(tickStart)

\* C8: when a callback threw during a tick, every other callback registered
\* for that tick (and not removed during it) was still invoked in that tick.
C8_ThrowDoesNotAbortTick ==
    (ticks > 0 /\ ~tickActive /\ threw) =>
       \A i \in 1..Len(tickStart) :
          tickStart[i].reg \notin tickRemoved => TimesInvoked(tickStart[i].reg) >= 1

\* C9: a callback throwing during a tick leaves the interval timer as it was:
\* intervalId and the live timers are unchanged, so the feed keeps running.
C9_ThrowKeepsTimer ==
    [][(~threw /\ threw') =>
          /\ intervalId' = intervalId
          /\ liveTimers' = liveTimers
          /\ (intervalId # NoTimer => intervalId' \in liveTimers')]_vars

\* A tick threw, and the same timer then began another tick in which a
\* callback was invoked.
C9_Witness == resumed /\ Len(invoked) > 0 /\ intervalId = tickTimer

\* C10: when a callback invoked a cleanup closure during a tick (and none
\* threw), every callback registered at the start of the tick and not removed
\* during it was invoked exactly once in that tick.
C10_UnsubscribeDuringTick ==
    (ticks > 0 /\ ~tickActive /\ ~threw /\ tickRemoved # {}) =>
       \A i \in 1..Len(tickStart) :
          tickStart[i].reg \notin tickRemoved => TimesInvoked(tickStart[i].reg) = 1

\* C25: invoking a cleanup closure that was invoked before leaves the
\* subscriber list unchanged, also when the same callback function was
\* registered more than once.
C25_SecondUnsubscribeIsNoOp ==
    [][\A h \in handles :
          (Unsubscribe(h) /\ h.reg \in called.regs) =>
             updateCallbacks' = updateCallbacks]_vars

\* C28: stopRealTimeUpdates and startRealTimeUpdates leave the subscriber
\* list unchanged; the callbacks registered (before a stop or while idle) are
\* invoked on the ticks of the next start, and none is invoked while idle.
C28_StartStopKeepSubscribers ==
    /\ [][intervalId' # intervalId => updateCallbacks' = updateCallbacks]_vars
    /\ [](~idleCall)
    /\ []((ticks > 0 /\ ~tickActive) =>
             \A i \in 1..Len(tickStart) :
                tickStart[i].reg \notin tickRemoved => TimesInvoked(tickStart[i].reg) >= 1)

\* The state of the other subsystems, which the table never touches.
otherThanTable == <<feedVars, dashVars, pageVars, exportVars>>

\* onChange of the search Input
SetSearch(text) ==
    /\ text # search
    /\ search' = text
    /\ data' = DataAfterMemo(data, text, statusFilter, sortKey, sortDirection)
    /\ csvCall' = NoCsvCall
    /\ UNCHANGED <<passed, pageSize, statusFilter, sortKey, sortDirection, currentPage>>
    /\ UNCHANGED otherThanTable

\* onValueChange of the status Select
SetStatusFilter(value) ==
    /\ value # statusFilter
    /\ statusFilter' = value
    /\ data' = DataAfterMemo(data, search, value, sortKey, sortDirection)
    /\ csvCall' = NoCsvCall
    /\ UNCHANGED <<passed, pageSize, search, sortKey, sortDirection, currentPage>>
    /\ UNCHANGED otherThanTable

\* A two-state toggle, without the unsorted state.
NextDirectionToggle(prev) ==
    IF prev = "asc" THEN "desc" ELSE "asc"
\* The direction a click on the current sort column leads to.
NextDirection(prev) ==
    IF prev = "asc" THEN "desc" ELSE IF prev = "desc" THEN "none" ELSE "asc"

HandleSort(key) ==
    /\ IF sortKey = key
       THEN /\ sortDirection' = NextDirection(sortDirection)
            /\ UNCHANGED sortKey
       ELSE /\ sortKey' = key
            /\ sortDirection' = "asc"
    /\ data' = DataAfterMemo(data, search, statusFilter, sortKey', sortDirection')
    /\ csvCall' = NoCsvCall
    /\ UNCHANGED <<passed, pageSize, search, statusFilter, currentPage>>
    /\ UNCHANGED otherThanTable

\* Previous button (disabled on page 1)
PreviousPage ==
    /\ currentPage # 1
    /\ currentPage' = Max(1, currentPage - 1)
    /\ csvCall' = NoCsvCall
    /\ UNCHANGED <<data, passed, pageSize, search, statusFilter, sortKey, sortDirection>>
    /\ UNCHANGED otherThanTable

\* Next button (disabled when currentPage === totalPages)
NextPage ==
    /\ currentPage # totalPages
    /\ currentPage' = Min(totalPages, currentPage + 1)
    /\ csvCall' = NoCsvCall
    /\ UNCHANGED <<data, passed, pageSize, search, statusFilter, sortKey, sortDirection>>
    /\ UNCHANGED otherThanTable

\* One of the numbered page buttons 1..min(5, totalPages)
GotoPage(pageNum) ==
    /\ pageNum \in 1..Min(5, totalPages)
    /\ currentPage' = pageNum
    /\ csvCall' = NoCsvCall
    /\ UNCHANGED <<data, passed, pageSize, search, statusFilter, sortKey, sortDirection>>
    /\ UNCHANGED otherThanTable

\* The last-page button shown when totalPages > 5
GotoLastPage ==
    /\ totalPages > 5
    /\ currentPage' = totalPages
    /\ csvCall' = NoCsvCall
    /\ UNCHANGED <<data, passed, pageSize, search, statusFilter, sortKey, sortDirection>>
    /\ UNCHANGED otherThanTable

\* The parent renders the table with another record collection.
SetData(records) ==
    /\ records # data
    /\ passed' = records
    /\ data' = DataAfterMemo(records, search, statusFilter, sortKey, sortDirection)
    /\ csvCall' = NoCsvCall
    /\ UNCHANGED <<pageSize, search, statusFilter, sortKey, sortDirection, currentPage>>
    /\ UNCHANGED otherThanTable

\* Export CSV button
HandleExportCSV ==
    /\ csvCall' = ExportToCSV(ExportArgument(filteredAndSortedData, paginatedData))
    /\ UNCHANGED <<data, passed, pageSize, search, statusFilter, sortKey, sortDirection,
                   currentPage>>
    /\ UNCHANGED otherThanTable

TableNext ==
    \/ \E text \in Searches : SetSearch(text)
    \/ \E value \in StatusOptions : SetStatusFilter(value)
    \/ \E key \in SortKeys : HandleSort(key)
    \/ PreviousPage
    \/ NextPage
    \/ \E pageNum \in 1..5 : GotoPage(pageNum)
    \/ GotoLastPage
    \/ \E records \in TableInputs : SetData(records)
    \/ HandleExportCSV

TableSpecInit == FeedInit /\ TableInit /\ DashInit
TableSpec == TableSpecInit /\ [][TableNext]_vars

(***************************************************************************)
(* Properties of the DataTable                                             *)
(***************************************************************************)
\* C1: whenever the filtered result has at least one page, the current page
\* lies in [1, totalPages].
C1_PageInRange ==
    totalPages >= 1 => (1 <= currentPage /\ currentPage <= totalPages)

\* C2: every change of the search text, the status selector, the sort field
\* or the sort direction sets the current page to 1.
C2_QueryChangeResetsPage ==
    [][(search' # search \/ statusFilter' # statusFilter
          \/ sortKey' # sortKey \/ sortDirection' # sortDirection)
       => currentPage' = 1]_vars

\* The least k >= 0 with k * p >= n.
LeastCover(n, p) == CHOOSE k \in 0..n : k * p >= n /\ \A j \in 0..(k - 1) : j * p < n

\* C11: for a filtered result of length n and page size p, the total page
\* count is max(1, ceil(n / p)): 1, not 0, when no record matches.
C11_TotalPagesAtLeastOne ==
    totalPages = Max(1, LeastCover(Len(filteredAndSortedData), pageSize))

\* The elements of list at the 0-based indices [(k-1)*p, (k-1)*p + p) that
\* exist in list.
IndexWindow(list, k, p) ==
    LET lo == Max(0, (k - 1) * p)
        hi == Min(Len(list), (k - 1) * p + p)
    IN  [i \in 1..Max(0, hi - lo) |-> list[lo + i]]
RECURSIVE ConcatPages(_, _, _)
ConcatPages(list, k, p) ==
    IF k <= 0 THEN <<>> ELSE ConcatPages(list, k - 1, p) \o PageOf(list, k, p)

\* C12: the visible slice of page k is the window of indices
\* [(k-1)*p, (k-1)*p + p) clipped to the result, it has at most p elements,
\* and the slices of pages 1..totalPages concatenated are the whole result.
C12_PagesPartitionResult ==
    LET result == filteredAndSortedData
    IN  /\ paginatedData = IndexWindow(result, currentPage, pageSize)
        /\ Len(paginatedData) <= pageSize
        /\ \A k \in 1..totalPages :
              /\ PageOf(result, k, pageSize) = IndexWindow(result, k, pageSize)
              /\ Len(PageOf(result, k, pageSize)) <= pageSize
        /\ ConcatPages(result, totalPages, pageSize) = result

\* The table shows a last page that is not full, after other pages.
C12_Witness ==
    /\ totalPages >= 2
    /\ currentPage = totalPages
    /\ Len(paginatedData) >= 1
    /\ Len(paginatedData) < pageSize


\* C13: Previous on the first page, and Next on the last page (page 1 when
\* the filtered result is empty), leave the current page unchanged.
C13_PagingAtEndsIsNoOp ==
    [][((currentPage = 1 /\ PreviousPage)
          \/ (currentPage = Max(1, totalPages) /\ NextPage))
       => currentPage' = currentPage]_vars

\* C14: a click on the current sort column moves the direction along
\* asc -> desc -> unsorted -> asc and keeps the column, so that three clicks
\* return to the starting direction; a click on another column selects that
\* column with direction asc.
C14_SortCycle ==
    [][\A k \in SortKeys :
          HandleSort(k) =>
             IF k = sortKey
             THEN /\ sortKey' = sortKey
                  /\ sortDirection = "asc" => sortDirection' = "desc"
                  /\ sortDirection = "desc" => sortDirection' = "none"
                  /\ sortDirection = "none" => sortDirection' = "asc"
                  /\ NextDirection(NextDirection(sortDirection')) = sortDirection
             ELSE /\ sortKey' = k
                  /\ sortDirection' = "asc"]_vars

\* Another column was selected and clicked twice more: it is unsorted.
C14_Witness == sortKey = "name" /\ sortDirection = "none"

\* Two characters are the same letter, digit or sign, whatever their case.
CasePairs == {{UpperChars[i], LowerChars[i]} : i \in 1..Len(UpperChars)}
SameIgnoringCase(a, b) == a = b \/ {a, b} \in CasePairs
\* text occurs in str at some position, case ignored.
OccursIgnoringCase(text, str) ==
    \E k \in 0..(Len(str) - Len(text)) :
       \A j \in 1..Len(text) : SameIgnoringCase(str[k + j], text[j])
\* The record is one of the rows of the table's result.
KeptIn(result, item) == \E i \in 1..Len(result) : result[i] = item
Kept(item) == KeptIn(filteredAndSortedData, item)

\* C16: the table keeps a record iff the search text occurs, case ignored, in
\* its name or in its client (and its status passes the status selector); the
\* empty search keeps every record.
C16_TextFilter ==
    LET result == filteredAndSortedData
    IN  /\ \A i \in 1..Len(data) :
              KeptIn(result, data[i]) <=>
                 /\ MatchesStatus(data[i], statusFilter)
                 /\ \/ OccursIgnoringCase(search, data[i].name)
                    \/ OccursIgnoringCase(search, data[i].client)
        /\ (search = <<>> /\ statusFilter = "all") =>
              \A i \in 1..Len(data) : KeptIn(result, data[i])

\* "Campaign 1" keeps both "Campaign 1 - Holiday Sale" and
\* "Campaign 12 - Brand Awareness".
C16_Witness ==
    /\ search = <<"C", "a", "m", "p", "a", "i", "g", "n", " ", "1">>
    /\ statusFilter = "all"
    /\ \E i, j \in 1..Len(filteredAndSortedData) :
          /\ filteredAndSortedData[i].name = CampaignName(1, CampaignTypes[1])
          /\ filteredAndSortedData[j].name = CampaignName(12, CampaignTypes[2])

\* C18: when the sort direction is unset, the result is the records that
\* pass the filter, in the order they have in the input, whatever the sort
\* column and whatever sorts came before.
C18_UnsortedKeepsInputOrder ==
    sortDirection = "none" =>
       LET result == filteredAndSortedData
       IN  result = SelectSeq(data, LAMBDA item : KeptIn(result, item))

\* The table is unsorted after sorts by client, with rows whose order by
\* client would differ.
C18_Witness ==
    /\ sortDirection = "none"
    /\ sortKey = "client"
    /\ Len(filteredAndSortedData) >= 2
    /\ SortBy(filteredAndSortedData, sortKey, "asc") # filteredAndSortedData
    /\ SortBy(filteredAndSortedData, sortKey, "desc") # filteredAndSortedData

\* C19: sorting never alters the caller's collection: the array passed as
\* the data prop keeps the elements and the order the parent gave it.
C19_SortLeavesDataProp == data = passed

\* The table shows a sorted result whose order differs from the input's.
C19_Witness ==
    /\ sortDirection = "asc"
    /\ sortKey = "client"
    /\ Len(filteredAndSortedData) >= 2
    /\ filteredAndSortedData # SelectSeq(passed, LAMBDA item : Kept(item))

\* C20: the table's CSV export passes the whole filtered and sorted result to
\* the exporter, in sorted order, whatever the current page and page size:
\* the file has the header line and one line per record of the result.
C20_ExportsWholeResult ==
    csvCall.made =>
       LET result == filteredAndSortedData
       IN  /\ csvCall.rows = result
           /\ Len(csvCall.file) = Len(result) + 1
           /\ \A i \in 1..Len(result) : csvCall.file[i + 1][1] = result[i].id

\* An export from page 2 of a sorted result of several pages.
C20_Witness ==
    /\ csvCall.made
    /\ currentPage = 2
    /\ totalPages >= 2
    /\ Len(csvCall.rows) > pageSize
    /\ sortDirection # "none"
    /\ csvCall.rows # SelectSeq(data, LAMBDA item : Kept(item))

\* C24: the current page number is at least 1 in every reachable state of the
\* table, whatever the size of the filtered result.
C24_PageAtLeastOne == currentPage >= 1

(***************************************************************************)
(* Index page and FilterPanel: operations                                  *)
(***************************************************************************)
otherThanDash == <<feedVars, tableVars, exportVars>>

\* loadInitialData, after the loading delay
LoadInitialData(campaigns) ==
    /\ isLoading
    /\ campaignData' = campaigns
    /\ filteredCampaignData' = campaigns
    /\ isLoading' = FALSE
    /\ refreshes' = refreshes + 1
    /\ metrics' = refreshes + 1
    /\ charts' = refreshes + 1
    /\ lastUpdated' = refreshes + 1
    /\ snapshot' = refreshes + 1
    /\ UNCHANGED <<filters, activeFilters, isRealTimeActive, toast, effectCleanup>>
    /\ UNCHANGED otherThanDash

\* updateFilters(newFilters), with updated = { ...filters, ...newFilters }
UpdateFilters(updated) ==
    /\ ~isLoading
    /\ filters' = updated
    /\ filteredCampaignData' = HandleFiltersChange(campaignData, updated)
    /\ activeFilters' = ActiveFiltersOf(updated)
    /\ UNCHANGED <<isLoading, campaignData>>
    /\ UNCHANGED pageVars
    /\ UNCHANGED otherThanDash

AddClientFilter(client) ==
    /\ ~Contains(filters.clients, client)
    /\ UpdateFilters([filters EXCEPT !.clients = Append(@, client)])

RemoveClientFilter(client) ==
    /\ Contains(filters.clients, client)
    /\ UpdateFilters([filters EXCEPT !.clients = SelectSeq(@, LAMBDA c : c # client)])

AddStatusFilter(status) ==
    /\ ~Contains(filters.status, status)
    /\ UpdateFilters([filters EXCEPT !.status = Append(@, status)])

RemoveStatusFilter(status) ==
    /\ Contains(filters.status, status)
    /\ UpdateFilters([filters EXCEPT !.status = SelectSeq(@, LAMBDA x : x # status)])

SetBudgetMin(value) ==
    /\ value # filters.budgetRange.min
    /\ UpdateFilters([filters EXCEPT !.budgetRange.min = value])

SetBudgetMax(value) ==
    /\ value # filters.budgetRange.max
    /\ UpdateFilters([filters EXCEPT !.budgetRange.max = value])

SetDateFrom(day) ==
    /\ day # filters.dateRange.from
    /\ UpdateFilters([filters EXCEPT !.dateRange.from = day])

SetDateTo(day) ==
    /\ day # filters.dateRange.to
    /\ UpdateFilters([filters EXCEPT !.dateRange.to = day])

\* clearFilters; the Clear All button is shown while activeFilters is not empty
ClearFilters ==
    /\ ~isLoading
    /\ Len(activeFilters) > 0
    /\ filters' = DefaultFilters
    /\ activeFilters' = <<>>
    /\ filteredCampaignData' = HandleFiltersChange(campaignData, DefaultFilters)
    /\ UNCHANGED <<isLoading, campaignData>>
    /\ UNCHANGED pageVars
    /\ UNCHANGED otherThanDash

DashNext ==
    \/ \E campaigns \in GenerateCampaignData : LoadInitialData(campaigns)
    \/ \E client \in AvailableClients : AddClientFilter(client)
    \/ \E client \in AvailableClients : RemoveClientFilter(client)
    \/ \E status \in AvailableStatuses : AddStatusFilter(status)
    \/ \E status \in AvailableStatuses : RemoveStatusFilter(status)
    \/ \E value \in BudgetMinInputs : SetBudgetMin(value)
    \/ \E value \in BudgetMaxInputs : SetBudgetMax(value)
    \/ \E day \in DateFromInputs : SetDateFrom(day)
    \/ \E day \in DateToInputs : SetDateTo(day)
    \/ ClearFilters

DashSpecInit == FeedInit /\ TableIdle /\ DashInit
DashSpec == DashSpecInit /\ [][DashNext]_vars

(***************************************************************************)
(* Exports: ExportService and the handlers that call it                    *)
(***************************************************************************)
\* const imgWidth = 210; const pageHeight = 295
ImgWidth == 210
PageHeight == 295
\* Canvases html2canvas can resolve with (width and height in pixels).
CanvasSizes == {[width |-> w, height |-> h] : w \in {210, 420}, h \in {100, 295, 590, 600, 1180}}
\* imgHeight = (canvas.height * imgWidth) / canvas.width and pageHeight, both
\* multiplied by canvas.width so that they stay integers.
ImgHeightScaled(c) == c.height * ImgWidth
PageHeightScaled(c) == PageHeight * c.width

\* The state the export handlers of the page leave alone.
otherThanExport == <<feedVars, tableVars, dashVars, isRealTimeActive, metrics, charts,
                     lastUpdated, snapshot, refreshes, effectCleanup>>

\* handleExportPDF up to the await: the toast, then exportToPDF starts
\* (document.getElementById finds the container of the loaded page).
HandleExportPDF ==
    /\ ~isLoading
    /\ pdfPc = "idle"
    /\ toast' = "Exporting PDF..."
    /\ pdfPc' = "html2canvas"
    /\ canvas' = NoCanvas
    /\ heightLeft' = 0
    /\ position' = 0
    /\ pdfPages' = 0
    /\ exportOutcome' = "none"
    /\ UNCHANGED unhandledError
    /\ UNCHANGED otherThanExport

\* html2canvas rejects (or toDataURL throws): exportToPDF logs and rethrows,
\* handleExportPDF catches and shows the failure toast.
Html2CanvasRejects ==
    /\ pdfPc = "html2canvas"
    /\ pdfPc' = "idle"
    /\ toast' = "Export Failed"
    /\ exportOutcome' = "pdf-failed"
    /\ UNCHANGED <<canvas, heightLeft, position, pdfPages, unhandledError>>
    /\ UNCHANGED otherThanExport

\* html2canvas resolves: the first page is added and heightLeft reduced.
Html2CanvasResolves(c) ==
    /\ pdfPc = "html2canvas"
    /\ canvas' = c
    /\ position' = 0
    /\ pdfPages' = 1
    /\ heightLeft' = ImgHeightScaled(c) - PageHeightScaled(c)
    /\ pdfPc' = "loop"
    /\ UNCHANGED <<toast, exportOutcome, unhandledError>>
    /\ UNCHANGED otherThanExport

\* One iteration of while (heightLeft >= 0)
PdfAddPage ==
    /\ pdfPc = "loop"
    /\ heightLeft >= 0
    /\ position' = heightLeft - ImgHeightScaled(canvas)
    /\ pdfPages' = pdfPages + 1
    /\ heightLeft' = heightLeft - PageHeightScaled(canvas)
    /\ UNCHANGED <<pdfPc, canvas, toast, exportOutcome, unhandledError>>
    /\ UNCHANGED otherThanExport

\* The loop is left: pdf.save(filename), then the success toast.
PdfSave ==
    /\ pdfPc = "loop"
    /\ ~(heightLeft >= 0)
    /\ pdfPc' = "idle"
    /\ toast' = "Export Successful"
    /\ exportOutcome' = "pdf-ok"
    /\ UNCHANGED <<canvas, heightLeft, position, pdfPages, unhandledError>>
    /\ UNCHANGED otherThanExport

\* handleExportMetricsCSV; ok is whether exportMetricsToCSV returned or threw.
HandleExportMetricsCSV(ok) ==
    /\ ~isLoading
    /\ toast' = IF ok THEN "Export Successful" ELSE "Export Failed"
    /\ exportOutcome' = IF ok THEN "metrics-ok" ELSE "metrics-failed"
    /\ UNCHANGED <<pdfPc, canvas, heightLeft, position, pdfPages, unhandledError>>
    /\ UNCHANGED otherThanExport

\* The table's Export CSV button when exportToCSV throws: it logs and
\* rethrows, and handleExportCSV has no try/catch.
HandleExportCSVThrows ==
    /\ csvCall' = ExportToCSVThrows(ExportArgument(filteredAndSortedData, paginatedData))
    /\ unhandledError' = TRUE
    /\ UNCHANGED <<data, passed, pageSize, search, statusFilter, sortKey, sortDirection,
                   currentPage>>
    /\ UNCHANGED <<pdfPc, canvas, heightLeft, position, pdfPages, exportOutcome>>
    /\ UNCHANGED <<feedVars, dashVars, pageVars>>

ExportNext ==
    \/ \E campaigns \in GenerateCampaignData : LoadInitialData(campaigns)
    \/ HandleExportPDF
    \/ Html2CanvasRejects
    \/ \E c \in CanvasSizes : Html2CanvasResolves(c)
    \/ PdfAddPage
    \/ PdfSave
    \/ \E ok \in BOOLEAN : HandleExportMetricsCSV(ok)
    \/ HandleExportCSV
    \/ HandleExportCSVThrows

ExportSpecInit == FeedInit /\ TableInit /\ DashInit
ExportSpec == ExportSpecInit /\ [][ExportNext]_vars

(***************************************************************************)
(* Index page: the real-time effect and its callback                       *)
(***************************************************************************)
\* The arrow function the effect passes to onUpdate: a new function object
\* in every run of the effect.
DashboardCallback(n) == "D" \o ToString(n)

\* An effect cleanup that only stops the timer.
EffectCleanupStopOnly(list, h) == list
\* The subscriber list after the effect's cleanup called cleanup().
EffectCleanup(list, h) == IF h # NoHandle THEN Cleanup(list, h.cb) ELSE list

\* handleToggleRealTime and the effect it triggers: the cleanup of the
\* effect's previous run, then its new run.
ToggleRealTime ==
    /\ ~isLoading
    /\ ~tickActive
    /\ isRealTimeActive' = ~isRealTimeActive
    /\ toast' = IF isRealTimeActive THEN "Real-time Disabled" ELSE "Real-time Enabled"
    /\ IF ~isRealTimeActive
       THEN \* onUpdate(callback), startRealTimeUpdates(15000)
            /\ nextReg <= MaxRegs
            /\ updateCallbacks' =
                  Append(EffectCleanup(updateCallbacks, effectCleanup),
                         [cb |-> DashboardCallback(nextReg), reg |-> nextReg])
            /\ handles' = handles \cup {[cb |-> DashboardCallback(nextReg), reg |-> nextReg]}
            /\ effectCleanup' = [cb |-> DashboardCallback(nextReg), reg |-> nextReg]
            /\ nextReg' = nextReg + 1
            /\ DoStart
            /\ UNCHANGED called
       ELSE \* cleanup(), stopRealTimeUpdates(); then the else branch stops again
            /\ updateCallbacks' = EffectCleanup(updateCallbacks, effectCleanup)
            /\ effectCleanup' = NoHandle
            /\ called' = IF effectCleanup # NoHandle THEN RecordCall(called, effectCleanup.reg)
                         ELSE called
            /\ liveTimers' = StopTimers(StopTimers(liveTimers, intervalId), StopId(intervalId))
            /\ intervalId' = StopId(StopId(intervalId))
            /\ lastOp' = "stopIdle"
            /\ UNCHANGED <<handles, nextReg, nextTimerId>>
    /\ UNCHANGED tickHist
    /\ UNCHANGED <<metrics, charts, lastUpdated, snapshot, refreshes>>
    /\ UNCHANGED <<tableVars, dashVars, exportVars>>

\* The callback of the effect, invoked by a tick: the generators run again
\* for the metrics and the charts, and a toast is shown.
DashboardRefresh ==
    /\ Invoke
    /\ Advance
    /\ refreshes' = refreshes + 1
    /\ metrics' = refreshes + 1
    /\ charts' = refreshes + 1
    /\ lastUpdated' = refreshes + 1
    /\ toast' = "Data Updated"
    /\ UNCHANGED <<updateCallbacks, intervalId, liveTimers, nextTimerId, called,
                   tickActive, tickRemoved, threw, lastOp>>
    /\ UNCHANGED <<isRealTimeActive, snapshot, effectCleanup>>
    /\ UNCHANGED <<tableVars, dashVars, exportVars>>

LiveNext ==
    \/ \E campaigns \in GenerateCampaignData : LoadInitialData(campaigns)
    \/ ToggleRealTime
    \/ TickBegin
    \/ DashboardRefresh
    \/ TickEnd

LiveSpecInit == FeedInit /\ TableIdle /\ DashInit
LiveSpec == LiveSpecInit /\ [][LiveNext]_vars

(***************************************************************************)
(* Properties of the filter criteria                                       *)
(***************************************************************************)
\* C3: default/empty criteria match every record: the table's filter with an
\* empty search and status 'all' keeps every record of the collection, and
\* whenever the panel's criteria are the defaults the collection handed to
\* the table is the full record collection.
C3_DefaultCriteriaMatchAll ==
    (~isLoading /\ filters = DefaultFilters) =>
       /\ FilterData(campaignData, <<>>, "all") = campaignData
       /\ filteredCampaignData = campaignData

\* C15: when the budget range is the only criterion that is not the default,
\* the filtered collection is exactly the records with min <= budget <= max
\* (none when min > max).
C15_BudgetRangeOnly ==
    (/\ ~isLoading
     /\ filters.clients = <<>>
     /\ filters.status = <<>>
     /\ filters.dateRange = defaultDateRange
     /\ filters.budgetRange # DefaultFilters.budgetRange) =>
       filteredCampaignData =
          SelectSeq(campaignData, LAMBDA c : /\ filters.budgetRange.min <= c.budget
                                             /\ c.budget <= filters.budgetRange.max)

\* The record passes the client, status and budget criteria of f.
PassesOtherCriteria(c, f) ==
    /\ f.clients = <<>> \/ \E i \in 1..Len(f.clients) : f.clients[i] = c.client
    /\ f.status = <<>> \/ \E i \in 1..Len(f.status) : f.status[i] = c.status
    /\ f.budgetRange.min <= c.budget /\ c.budget <= f.budgetRange.max
\* End dates a campaign with this start date can have.
EndDatesFor(c) == {c.startDate + 14, c.startDate + 43}

\* C17: once criteria other than the defaults were applied, with a range of
\* two dates, a record (that passes the other criteria) is kept iff
\* from <= start date <= to, as days, the end points included; its end date
\* has no effect on that.
C17_DateRangeOnStartDate ==
    (/\ ~isLoading
     /\ filters # DefaultFilters
     /\ filters.dateRange.from # EmptyDate
     /\ filters.dateRange.to # EmptyDate) =>
       \A i \in 1..Len(campaignData) :
          LET c == campaignData[i]
          IN  /\ Contains(filteredCampaignData, c) <=>
                    /\ PassesOtherCriteria(c, filters)
                    /\ filters.dateRange.from <= c.startDate
                    /\ c.startDate <= filters.dateRange.to
              /\ \A end \in EndDatesFor(c) :
                    Contains(filteredCampaignData, c) <=>
                       HandleFiltersChange(<<[c EXCEPT !.endDate = end]>>, filters) # <<>>

\* A record that started on the from date and one that started on the to
\* date are both kept.
C17_Witness ==
    /\ ~isLoading
    /\ filters.dateRange.to < Today
    /\ \E i, j \in 1..Len(filteredCampaignData) :
          /\ filteredCampaignData[i].startDate = filters.dateRange.from
          /\ filteredCampaignData[j].startDate = filters.dateRange.to

\* The active filter summary has a descriptor of this kind.
HasDescriptor(kind) == \E i \in 1..Len(activeFilters) : activeFilters[i].kind = kind

\* C22: the active filter summary has a descriptor for each criterion
\* (clients, statuses, budget range, date range) whose value differs from its
\* default and none for a criterion at its default, so it is empty iff all
\* criteria are at their defaults.
C22_SummaryListsNonDefaults ==
    /\ HasDescriptor("Clients") <=> filters.clients # DefaultFilters.clients
    /\ HasDescriptor("Status") <=> filters.status # DefaultFilters.status
    /\ HasDescriptor("Budget") <=> filters.budgetRange # DefaultFilters.budgetRange
    /\ HasDescriptor("Date") <=> filters.dateRange # DefaultFilters.dateRange
    /\ activeFilters = <<>> <=> filters = DefaultFilters

\* C26: after Clear All the collection handed to the table is the full record
\* collection that was shown at initial load.
C26_ClearAllRestoresAll ==
    [][ClearFilters => filteredCampaignData' = campaignData]_vars

(***************************************************************************)
(* Properties of the exports                                               *)
(***************************************************************************)
\* The least number of pages of height pageHeight that cover the image.
PagesNeeded(c) ==
    CHOOSE k \in 1..(c.height + 1) :
       /\ k * PageHeightScaled(c) >= ImgHeightScaled(c)
       /\ (k - 1) * PageHeightScaled(c) < ImgHeightScaled(c)

\* C29: the document exportToPDF saves has ceil(imgHeight / pageHeight) pages,
\* exactly as many as are needed to cover the image, also when imgHeight is an
\* exact multiple of pageHeight.
C29_PdfPageCount ==
    (pdfPc = "idle" /\ exportOutcome = "pdf-ok") => pdfPages = PagesNeeded(canvas)

\* C21: a failed export (PDF, metrics CSV, table CSV) ends in the error
\* notification and never leaves its handler as an uncaught error.
C21_ExportFailureIsReported ==
    /\ ~unhandledError
    /\ exportOutcome \in {"pdf-failed", "metrics-failed"} => toast = "Export Failed"
    /\ csvCall.threw => toast = "Export Failed"

(***************************************************************************)
(* Properties of the real-time effect                                      *)
(***************************************************************************)
\* C23: every refresh made by a live-feed tick replaces the campaign record
\* collection with a freshly generated one (as the initial load does).
C23_TickReplacesCampaigns ==
    [][refreshes' # refreshes => snapshot' = refreshes']_vars

\* C27: after any sequence of real-time toggles the interval timer runs iff
\* real-time is active, and the service holds exactly one dashboard callback
\* when active and none when inactive.
C27_TogglesKeepOneCallback ==
    /\ isRealTimeActive <=> intervalId # NoTimer
    /\ liveTimers = IF isRealTimeActive THEN {intervalId} ELSE {}
    /\ Len(updateCallbacks) = IF isRealTimeActive THEN 1 ELSE 0
    /\ isRealTimeActive => updateCallbacks[1] = effectCleanup

\* Real-time was switched on, off and on again, and a tick of the second
\* timer has invoked the second callback.
C27_Witness ==
    /\ isRealTimeActive
    /\ nextReg = 3
    /\ invoked = <<2>>
    /\ tickTimer = intervalId

====
